---- MODULE Spec2Model ----
(***************************************************************************)
(* Model of src/src/engine.c (openomf): engine_init's goto-chained         *)
(* start-up and rollback, engine_run's set-up of the Engine Context and    *)
(* engine_loop, the per-frame scheduler, in the default build (video,      *)
(* audio and SDL event handling compiled in, engine_loop driven as a       *)
(* callback until it cancels itself).                                      *)
(*                                                                         *)
(* engine_loop is modelled block by block: pc names the block that runs    *)
(* next, and every loop of the C code (event poll, static drain, dynamic   *)
(* drain) takes one step per pass through its body.                        *)
(***************************************************************************)
EXTENDS Integers, Sequences, FiniteSets, TLC

\* ------------------------------------------------------------------ bounds

\* Largest number of single-step (SPACE) requests counted before one is consumed.
MaxReqs == 2

\* ------------------------------------------------------- program constants

StaticPeriod  == 10      \* while(ctx->static_wait > 10) ... -= 10
DebugQuantum  == 20      \* ctx->dynamic_wait += 20; ctx->static_wait += 20
MouseTimeout  == 1000    \* ctx->mouse_visible_ticks = 1000
StartTimeout  == 30      \* static int start_timeout = 30

\* Subsystems in the order engine_init calls their init functions.
InitOrder == << "video", "audio", "sounds_loader", "lang", "fonts", "altpals", "console" >>

Subsystems == { InitOrder[i] : i \in 1..Len(InitOrder) }

\* GotoLabel with one goto aimed a label too high: a failed lang_init jumps
\* to exit_4, which closes lang itself.
GotoLabelOneTooHigh ==
    [ video |-> 0, audio |-> 1, sounds_loader |-> 2, lang |-> 4,
      fonts |-> 4, altpals |-> 5, console |-> 6 ]

\* The label engine_init jumps to when the init of a subsystem fails.
GotoLabel == [ video |-> 0, audio |-> 1, sounds_loader |-> 2, lang |-> 3,
               fonts |-> 4, altpals |-> 5, console |-> 6 ]

\* The close call that stands under each label exit_k (exit_0 has none).
LabelClose == [ k \in 1..6 |->
                  CASE k = 6 -> "altpals"
                    [] k = 5 -> "fonts"
                    [] k = 4 -> "lang"
                    [] k = 3 -> "sounds_loader"
                    [] k = 2 -> "audio"
                    [] k = 1 -> "video" ]

\* ------------------------------------------------------------- environment

\* Event kinds SDL_PollEvent can deliver.  The KEY_* kinds are SDL_KEYDOWN
\* events; GRAVE stands for a key whose sym is SDLK_BACKQUOTE or whose
\* scancode is SDL_SCANCODE_GRAVE; OTHER is any other event type (key-up,
\* mouse button, ...).
KeyDownEvents == { "KEY_F1", "KEY_F5", "KEY_SPACE", "KEY_F6", "KEY_TAB",
                   "KEY_GRAVE", "KEY_ESCAPE", "KEY_OTHER" }

WindowEvents == { "WIN_MINIMIZED", "WIN_HIDDEN", "WIN_MAXIMIZED",
                  "WIN_RESTORED", "WIN_SHOWN" }

Events == { "QUIT", "MOUSEMOTION", "OTHER" } \cup KeyDownEvents \cup WindowEvents

\* What the audio layer tells engine_init: whether the configured sink
\* ("pulse") is available and the name audio_get_first_sink_name returns
\* ("NULL" when there is no sink at all).
SinkCases == { [ available |-> TRUE,  first |-> "NULL" ],
               [ available |-> FALSE, first |-> "alsa" ],
               [ available |-> FALSE, first |-> "NULL" ] }

\* An environment of the program: the sinks of the audio layer, the event kinds SDL_PollEvent delivers, the
\* elapsed times (ms since frame_start) read for the mouse countdown, before
\* game_state_tick_controllers, and the elapsed times read after it.
\*
\* EnvAll: every event kind, frames of 0 or 20 ms.
EnvAll == [ events |-> Events, mouse_deltas |-> { 0 }, deltas |-> { 0, 20 },
            sinks |-> SinkCases ]

\* EnvSched: the keys of the visual debugger, frame times that are and are
\* not multiples of the tick periods.
EnvSched == [ events |-> { "KEY_F5", "KEY_SPACE", "KEY_OTHER", "QUIT" },
              mouse_deltas |-> { 0 },
              deltas |-> { 0, 10, 17, 37 },
              sinks |-> { [ available |-> TRUE, first |-> "NULL" ] } ]

\* EnvMouse: mouse motion and long frames, which run the mouse countdown down.
EnvMouse == [ events |-> { "MOUSEMOTION", "OTHER" },
              mouse_deltas |-> { 0, 400, 600 },
              deltas |-> { 0, 400, 600 },
              sinks |-> { [ available |-> TRUE, first |-> "NULL" ] } ]

\* Dynamic tick periods game_state_ms_per_dyntick can report.
Periods == { 16, 20 }

\* ------------------------------------------------------------------- state

VARIABLES
    pc,                    \* the block of the program that runs next
    run,                   \* static int run (Run-State)
    start_timeout,         \* static int start_timeout
    take_screenshot,       \* static int take_screenshot
    enable_screen_updates, \* static int enable_screen_updates
    init_calls,            \* the init calls of engine_init in call order, with their results
    init_failed,           \* the subsystem whose init failed, or "none"
    close_calls,           \* subsystems engine_init closed, in call order
    init_ret,              \* engine_init's return value (-1 before it returns)
    audio,                 \* the sink audio_init was called with, and what it found
    shutdown,              \* the close calls of engine_close, in call order (history)
    heap,                  \* the blocks engine_run allocates, and its frees (history)
    ctx,                   \* the EngineContext fields
    console_open,          \* console_window_is_open()
    cursor_shown,          \* state set by SDL_ShowCursor
    ms_per_dyntick,        \* game_state_ms_per_dyntick(ctx->gs)
    obs                    \* observations of the current iteration (history)

vars == << pc, run, start_timeout, take_screenshot, enable_screen_updates,
           init_calls, init_failed, close_calls, init_ret, audio, shutdown,
           heap, ctx,
           console_open, cursor_shown, ms_per_dyntick, obs >>

initVars   == << init_calls, init_failed, close_calls, init_ret, audio, shutdown >>
screenVars == << take_screenshot, enable_screen_updates >>
gsVars     == << ms_per_dyntick >>

\* Observations that start afresh with every iteration of engine_loop.
IterObs == [ static_ticks |-> 0, dynamic_ticks |-> 0, a |-> 0, b |-> 0,
             p0 |-> 0, period_const |-> TRUE, added |-> FALSE,
             ev |-> "none", ev_open |-> 0, to_console |-> 0, to_game |-> 0,
             step_added |-> 0, step_added_dyn |-> 0, step_reqs |-> 0, hid |-> 0,
             shot |-> "none", shot_log |-> "none", image_frees |-> 0,
             win_opens |-> 0, win_closes |-> 0 ]

\* Observations kept across iterations.
RunObs == [ iter_done |-> FALSE, reqs |-> 0, hide_count |-> 0, mouse_elapsed |-> 0,
            cd_total |-> 0, cd_passes |-> 0 ]

Merge(r, s) == [ n \in (DOMAIN r) \cup (DOMAIN s) |->
                   IF n \in DOMAIN s THEN s[n] ELSE r[n] ]

Min(x, y) == IF x < y THEN x ELSE y

\* audio_init was not called (yet).
NoAudio == [ called |-> FALSE, available |-> TRUE, first |-> "NULL", sink |-> "NULL",
             enabled |-> FALSE ]

Init ==
    /\ pc = "start"
    /\ run = 0
    /\ start_timeout = StartTimeout
    /\ take_screenshot = 0
    /\ enable_screen_updates = 1
    /\ init_calls = << >>
    /\ init_failed = "none"
    /\ close_calls = << >>
    /\ init_ret = -1
    /\ audio = NoAudio
    /\ shutdown = << >>
    /\ heap = [ ctx |-> "none", gs |-> "none", allocs |-> << >>, frees |-> << >>,
                uaf |-> 0 ]
    /\ ctx = [ visual_debugger |-> 0, debugger_proceed |-> 0, debugger_render |-> 0,
               mouse_visible_ticks |-> 0, dynamic_wait |-> 0, static_wait |-> 0 ]
    /\ console_open = 0
    /\ cursor_shown = 1
    /\ ms_per_dyntick = 0
    /\ obs = Merge(IterObs, RunObs)

\* ------------------------------------------------------------- engine_init

\* The chain of if(x_init()) goto exit_k; from the i-th subsystem on: the
\* calls made, each with its result, and the subsystem whose failure made
\* engine_init jump.  ok[s] tells whether the init of subsystem s succeeds.
RECURSIVE InitWalk(_, _)
InitWalk(i, ok) ==
    IF i > Len(InitOrder)
    THEN [ called |-> << >>, failed |-> "none" ]
    ELSE LET call == [ sub |-> InitOrder[i], ok |-> ok[InitOrder[i]] ] IN
         IF ~call.ok
         THEN [ called |-> << call >>, failed |-> call.sub ]
         ELSE LET rest == InitWalk(i + 1, ok) IN
              [ called |-> << call >> \o rest.called, failed |-> rest.failed ]

\* SinkChoice without the fallback: the configured sink is kept.
SinkChoiceNoFallback(sc) == "pulse"

\* The sink name engine_init passes to audio_init: the configured one if
\* audio_is_sink_available, else what audio_get_first_sink_name returns.
SinkChoice(sc) == IF sc.available THEN "pulse" ELSE sc.first

\* audio_init(sink): with no sink (NULL) audio is disabled for the run and
\* the call succeeds; with a sink it succeeds or fails as the device does.
AudioInitOk(sink, device_ok) == IF sink = "NULL" THEN TRUE ELSE device_ok

\* InitRun with run = 1 moved to the top of engine_init.
InitRunFirst(failed, r) == 1

\* run = 1 stands after the last init call only.
InitRun(failed, r) == IF failed = "none" THEN 1 ELSE r

\* The close calls made from label exit_k on, falling through to exit_0.
RECURSIVE Unwind(_)
Unwind(k) == IF k = 0 THEN << >> ELSE << LabelClose[k] >> \o Unwind(k - 1)

EngineInit(sinks) ==
    /\ pc = "start"
    /\ \E dev \in [ Subsystems -> BOOLEAN ], sc \in sinks :
         LET sink == SinkChoice(sc)
             ok   == [ dev EXCEPT !["audio"] = AudioInitOk(sink, dev["audio"]) ]
             w    == InitWalk(1, ok)
         IN
         /\ init_calls' = w.called
         /\ audio' = IF Len(w.called) >= 2
                      THEN [ called |-> TRUE, available |-> sc.available,
                             first |-> sc.first, sink |-> sink,
                             enabled |-> sink # "NULL" /\ ok["audio"] ]
                      ELSE NoAudio
         /\ init_failed' = w.failed
         /\ shutdown' = shutdown
         /\ run' = InitRun(w.failed, run)
         /\ IF w.failed = "none"
            THEN /\ close_calls' = << >>
                 /\ init_ret' = 0
                 /\ pc' = "inited"
            ELSE /\ close_calls' = Unwind(GotoLabel[w.failed])
                 /\ init_ret' = 1
                 /\ pc' = "init_failed"
    /\ UNCHANGED << heap, start_timeout, screenVars, ctx, console_open, cursor_shown,
                    gsVars, obs >>

\* ------------------------------------------------------------ engine_close

\* CloseOrder with audio_close and video_close exchanged.
CloseOrderVideoEarly ==
    << "console", "altpals", "fonts", "lang", "sounds_loader", "video", "audio" >>

\* The close calls of engine_close, in the order of the code.
CloseOrder ==
    << "console", "altpals", "fonts", "lang", "sounds_loader", "audio", "video" >>

\* Position of subsystem s in InitOrder.
InitPos(s) == CHOOSE i \in 1..Len(InitOrder) : InitOrder[i] = s

\* The subsystems that are up when engine_init has returned: those whose
\* init succeeded and that engine_init did not close again.
UpAfterInit ==
    { init_calls[i].sub : i \in { j \in 1..Len(init_calls) : init_calls[j].ok } }
        \ { close_calls[i] : i \in 1..Len(close_calls) }

\* The close calls of order[i..], made with the subsystems in up being up:
\* each is recorded with whether its subsystem was up, and whether it was
\* the last initialised of those up.
RECURSIVE CloseWalk(_, _, _)
CloseWalk(order, i, up) ==
    IF i > Len(order)
    THEN << >>
    ELSE LET s == order[i] IN
         << [ sub |-> s, up |-> s \in up,
              last |-> \A t \in up : InitPos(t) <= InitPos(s) ] >>
            \o CloseWalk(order, i + 1, up \ { s })

\* engine_close, called once engine_init has returned and engine_run is not
\* running: it takes no notice of what engine_init returned.
EngineClose ==
    /\ pc \in { "init_failed", "inited", "returned" }
    /\ shutdown' = CloseWalk(CloseOrder, 1, UpAfterInit)
    /\ pc' = "closed"
    /\ UNCHANGED << heap, run, start_timeout, screenVars, init_calls, init_failed, close_calls,
                    init_ret, audio, ctx, console_open, cursor_shown, gsVars, obs >>

\* -------------------------------------------------------------- engine_run

RunPcs == { "countdown", "top", "poll", "frame", "static", "dynamic", "render", "stopped" }

\* malloc of block b.
Malloc(h, b) == [ h EXCEPT ![b] = "live", !.allocs = @ \o << b >> ]

\* free of block b.
Free(h, b) == [ h EXCEPT ![b] = "freed", !.frees = @ \o << b >> ]

\* A read of a field of the EngineContext through engineCtx: it counts as a
\* use after free if the block was freed before.
ReadCtx(h) == [ h EXCEPT !.uaf = @ + (IF h.ctx = "freed" THEN 1 ELSE 0) ]

\* malloc of the EngineContext and the assignments of its fields.
EngineRunEnter ==
    /\ pc = "inited"
    /\ ctx' = [ visual_debugger |-> 0, debugger_proceed |-> 0, debugger_render |-> 0,
                mouse_visible_ticks |-> MouseTimeout, dynamic_wait |-> 0, static_wait |-> 0 ]
    /\ \E crossfade_on \in BOOLEAN :
         /\ start_timeout' = IF crossfade_on THEN start_timeout ELSE 0
         /\ obs' = [ obs EXCEPT !.cd_total = start_timeout' ]
    /\ heap' = Malloc(heap, "ctx")
    /\ pc' = "countdown"
    /\ UNCHANGED << run, screenVars, initVars, console_open, cursor_shown, gsVars >>

\* One pass of while(start_timeout > 0): the events polled are dropped,
\* except SDL_QUIT, which makes engine_run return.
Countdown ==
    /\ pc = "countdown"
    /\ start_timeout > 0
    /\ start_timeout' = start_timeout - 1
    /\ obs' = [ obs EXCEPT !.cd_passes = @ + 1 ]
    /\ \E quit_seen \in BOOLEAN :
         pc' = IF quit_seen THEN "returned" ELSE "countdown"
    /\ UNCHANGED << heap, run, screenVars, initVars, ctx, console_open, cursor_shown, gsVars >>

\* GameCreate placed before while(start_timeout > 0) has ended.
GameCreateEarly ==
    /\ pc = "countdown"
    /\ heap' = Malloc(heap, "gs")
    /\ obs' = [ obs EXCEPT !.cd_total = 0, !.cd_passes = 0 ]
    /\ \E failed \in BOOLEAN :
         IF failed
         THEN /\ pc' = "returned"
              /\ UNCHANGED gsVars
         ELSE /\ pc' = "top"
              /\ ms_per_dyntick' \in Periods
    /\ UNCHANGED << run, start_timeout, screenVars, initVars, ctx, console_open,
                    cursor_shown >>

\* malloc of the game_state and game_state_create, reached when
\* while(start_timeout > 0) has ended (the countdown's observations end
\* with it); when game_state_create fails engine_run returns at once.
GameCreate ==
    /\ pc = "countdown"
    /\ start_timeout = 0
    /\ heap' = Malloc(heap, "gs")
    /\ obs' = [ obs EXCEPT !.cd_total = 0, !.cd_passes = 0 ]
    /\ \E failed \in BOOLEAN :
         IF failed
         THEN /\ pc' = "returned"
              /\ UNCHANGED gsVars
         ELSE /\ pc' = "top"
              /\ ms_per_dyntick' \in Periods
    /\ UNCHANGED << run, start_timeout, screenVars, initVars, ctx, console_open,
                    cursor_shown >>

\* The code after the game loop: free(engineCtx), then
\* game_state_free(engineCtx->gs) and free(engineCtx->gs).  The two reads of
\* engineCtx->gs come after the free of the block they read: either they
\* still find the game_state's address there (stale_ok) and the game_state
\* is freed, or they find something else and the process dies in
\* game_state_free.
EngineRunExit ==
    /\ pc = "stopped"
    /\ \E stale_ok \in BOOLEAN :
         LET h1 == Free(heap, "ctx")
             h2 == ReadCtx(h1)
             h3 == ReadCtx(h2)
         IN  IF stale_ok
             THEN heap' = Free(h3, "gs") /\ pc' = "returned"
             ELSE heap' = h2 /\ pc' = "crashed"
    /\ UNCHANGED << run, start_timeout, screenVars, initVars, ctx, console_open,
                    cursor_shown, gsVars, obs >>

\* exit_handler(int s)
ExitHandler ==
    /\ pc \in RunPcs
    /\ run' = 0
    /\ UNCHANGED << heap, pc, start_timeout, screenVars, initVars, ctx, console_open,
                    cursor_shown, gsVars, obs >>

\* ------------------------------------------------------------- engine_loop

\* LoopTopOf with && in place of ||.
LoopTopOfBoth(gs_running) ==
    /\ pc = "top"
    /\ IF run = 0 /\ gs_running = 0
       THEN /\ pc' = "stopped"
            /\ obs' = obs
       ELSE /\ pc' = "poll"
            /\ obs' = Merge(obs, IterObs)
    /\ UNCHANGED << heap, run, start_timeout, screenVars, initVars, ctx, console_open,
                    cursor_shown, gsVars >>

\* if (run == 0 || !game_state_is_running(ctx->gs)) { cancel; return; }
\* gs_running is what game_state_is_running returns.
LoopTopOf(gs_running) ==
    /\ pc = "top"
    /\ IF run = 0 \/ gs_running = 0
       THEN /\ pc' = "stopped"
            /\ obs' = obs
       ELSE /\ pc' = "poll"
            /\ obs' = Merge(obs, IterObs)
    /\ UNCHANGED << heap, run, start_timeout, screenVars, initVars, ctx, console_open,
                    cursor_shown, gsVars >>

LoopTop == \E gs_running \in { 0, 1 } : LoopTopOf(gs_running)

\* SwitchRun with a default case that sets run again.
SwitchRunDefaultSets(e, r) == IF e = "QUIT" THEN 0 ELSE 1

\* The switch on ctx->e.type: its effect on Run-State.
SwitchRun(e, r) == IF e = "QUIT" THEN 0 ELSE r

\* The switch on ctx->e.type: its effect on the EngineContext.
SwitchCtx(e, c) ==
    CASE e = "KEY_F5"      -> [ c EXCEPT !.visual_debugger = 1 - @ ]
      [] e = "KEY_SPACE"   -> [ c EXCEPT !.debugger_proceed = 1 ]
      [] e = "KEY_F6"      -> [ c EXCEPT !.debugger_render = 1 - @ ]
      [] e = "MOUSEMOTION" -> [ c EXCEPT !.mouse_visible_ticks = MouseTimeout ]
      [] OTHER             -> c

\* The switch on ctx->e.type: its effect on take_screenshot.
SwitchScreenshot(e, t) == IF e = "KEY_F1" THEN 1 ELSE t

\* The switch on ctx->e.window.event: its effect on enable_screen_updates.
SwitchScreenUpdates(e, u) ==
    CASE e \in { "WIN_MINIMIZED", "WIN_HIDDEN" }               -> 0
      [] e \in { "WIN_MAXIMIZED", "WIN_RESTORED", "WIN_SHOWN" } -> 1
      [] OTHER                                                  -> u

\* ConsoleKey with SDLK_ESCAPE also in the test of the else-if.
ConsoleKeyEscOpens(e, open) ==
    IF e \in KeyDownEvents
    THEN IF open = 1 /\ e \in { "KEY_GRAVE", "KEY_TAB", "KEY_ESCAPE" }
         THEN "close"
         ELSE IF e \in { "KEY_TAB", "KEY_GRAVE", "KEY_ESCAPE" }
              THEN "open"
              ELSE "none"
    ELSE "none"

\* The "Console events" block: what a key-down does to the overlay:
\* "close" and "open" end the handling of the event (continue).
ConsoleKey(e, open) ==
    IF e \in KeyDownEvents
    THEN IF open = 1 /\ e \in { "KEY_GRAVE", "KEY_TAB", "KEY_ESCAPE" }
         THEN "close"
         ELSE IF e \in { "KEY_TAB", "KEY_GRAVE" }
              THEN "open"
              ELSE "none"
    ELSE "none"

\* RouteTo without the two continue statements of the console block.
RouteToNoContinue(e, open) == IF open = 1 THEN "console" ELSE "game"

\* Where the event goes once the console block let it through.
RouteTo(e, open) ==
    IF ConsoleKey(e, open) # "none"
    THEN "nobody"
    ELSE IF open = 1 THEN "console" ELSE "game"

\* One pass of while(SDL_PollEvent(&ctx->e)) with event e.
HandleEvent(e) ==
    /\ pc = "poll"
    /\ (e = "KEY_SPACE" /\ ctx.visual_debugger = 1) => obs.reqs < MaxReqs
    /\ run' = SwitchRun(e, run)
    /\ ctx' = SwitchCtx(e, ctx)
    /\ take_screenshot' = SwitchScreenshot(e, take_screenshot)
    /\ enable_screen_updates' = SwitchScreenUpdates(e, enable_screen_updates)
    /\ cursor_shown' = IF e = "MOUSEMOTION" THEN 1 ELSE cursor_shown
    /\ console_open' = CASE ConsoleKey(e, console_open) = "close" -> 0
                         [] ConsoleKey(e, console_open) = "open"  -> 1
                         [] OTHER                                 -> console_open
    /\ obs' = [ obs EXCEPT
                  !.ev = e,
                  !.ev_open = console_open,
                  !.to_console = IF RouteTo(e, console_open) = "console" THEN 1 ELSE 0,
                  !.to_game = IF RouteTo(e, console_open) = "game" THEN 1 ELSE 0,
                  !.win_opens = IF ConsoleKey(e, console_open) = "open" THEN 1 ELSE 0,
                  !.win_closes = IF ConsoleKey(e, console_open) = "close" THEN 1 ELSE 0,
                  !.reqs = CASE e = "KEY_F5" -> 0
                             [] e = "KEY_SPACE" /\ ctx.visual_debugger = 1 -> @ + 1
                             [] OTHER -> @,
                  !.hide_count = IF e = "MOUSEMOTION" THEN 0 ELSE @,
                  !.mouse_elapsed = IF e = "MOUSEMOTION" THEN 0 ELSE @ ]
    /\ UNCHANGED << heap, pc, start_timeout, initVars, gsVars >>

PollEvent(E) == \E e \in E : HandleEvent(e)

\* SDL_PollEvent returns 0.
PollDone ==
    /\ pc = "poll"
    /\ pc' = "frame"
    /\ obs' = [ obs EXCEPT !.ev = "none", !.ev_open = 0, !.to_console = 0, !.to_game = 0,
                            !.win_opens = 0, !.win_closes = 0 ]
    /\ UNCHANGED << heap, run, start_timeout, screenVars, initVars, ctx, console_open,
                    cursor_shown, gsVars >>

\* "hide mouse after n ticks": the countdown after the elapsed time md was
\* read, and whether SDL_ShowCursor(0) is called.
MouseCountdown(ticks, md) == IF ticks > 0 THEN ticks - md ELSE ticks

\* MouseHides without the test mouse_visible_ticks > 0: level-triggered.
MouseHidesWhileExpired(ticks, md) == ticks - md <= 0

MouseHides(ticks, md) == ticks > 0 /\ MouseCountdown(ticks, md) <= 0

\* Accumulate without ctx->debugger_proceed = 0: the request stays set.
AccumulateKeepsRequest(c, dt) ==
    IF c.visual_debugger = 0
    THEN [ c EXCEPT !.dynamic_wait = @ + dt, !.static_wait = @ + dt ]
    ELSE IF c.debugger_proceed # 0
         THEN [ c EXCEPT !.dynamic_wait = @ + DebugQuantum,
                         !.static_wait = @ + DebugQuantum ]
         ELSE c

\* The addition of the frame's time to the accumulators: dt without the
\* visual debugger, the fixed quantum for a requested single step with it.
Accumulate(c, dt) ==
    IF c.visual_debugger = 0
    THEN [ c EXCEPT !.dynamic_wait = @ + dt, !.static_wait = @ + dt ]
    ELSE IF c.debugger_proceed # 0
         THEN [ c EXCEPT !.dynamic_wait = @ + DebugQuantum,
                         !.static_wait = @ + DebugQuantum,
                         !.debugger_proceed = 0 ]
         ELSE c

\* From "hide mouse after n ticks" to the end of the accumulation: md is the
\* time since frame_start read for the mouse countdown, dt the time read
\* after game_state_tick_controllers.
FrameTimeOf(md, dt) ==
    LET hides == MouseHides(ctx.mouse_visible_ticks, md)
        c1    == [ ctx EXCEPT !.mouse_visible_ticks = MouseCountdown(@, md) ]
        c2    == Accumulate(c1, dt)
        step  == /\ ctx.visual_debugger # 0
                 /\ \/ c2.static_wait # ctx.static_wait
                    \/ c2.dynamic_wait # ctx.dynamic_wait
    IN
    /\ pc = "frame"
    /\ md <= dt
    /\ ctx' = c2
    /\ cursor_shown' = IF hides THEN 0 ELSE cursor_shown
    /\ obs' = [ obs EXCEPT
                  !.added = TRUE,
                  !.a = c2.static_wait,
                  !.b = c2.dynamic_wait,
                  !.p0 = ms_per_dyntick,
                  !.step_added = IF ctx.visual_debugger # 0
                                 THEN c2.static_wait - ctx.static_wait ELSE 0,
                  !.step_added_dyn = IF ctx.visual_debugger # 0
                                     THEN c2.dynamic_wait - ctx.dynamic_wait ELSE 0,
                  !.step_reqs = IF step THEN obs.reqs ELSE 0,
                  !.reqs = IF step THEN 0 ELSE @,
                  !.hid = IF hides THEN 1 ELSE 0,
                  !.hide_count = IF hides THEN Min(2, @ + 1) ELSE @,
                  !.mouse_elapsed = Min(MouseTimeout, @ + md) ]
    /\ pc' = "static"
    /\ UNCHANGED << heap, run, start_timeout, screenVars, initVars, console_open, gsVars >>

FrameTime(MD, D) == \E md \in MD, dt \in D : FrameTimeOf(md, dt)

\* The test of while(ctx->static_wait > 10).
StaticDue(c) == c.static_wait > StaticPeriod

\* One pass of the static drain: static tick, console tick, video tick.
StaticTick ==
    /\ pc = "static"
    /\ StaticDue(ctx)
    /\ ctx' = [ ctx EXCEPT !.static_wait = @ - StaticPeriod ]
    /\ obs' = [ obs EXCEPT !.static_ticks = @ + 1 ]
    /\ UNCHANGED << heap, pc, run, start_timeout, screenVars, initVars, console_open,
                    cursor_shown, gsVars >>

StaticDone ==
    /\ pc = "static"
    /\ ~StaticDue(ctx)
    /\ pc' = "dynamic"
    /\ UNCHANGED << heap, run, start_timeout, screenVars, initVars, ctx, console_open,
                    cursor_shown, gsVars, obs >>

\* The test of while(ctx->dynamic_wait > game_state_ms_per_dyntick(ctx->gs)).
DynamicDue(c, period) == c.dynamic_wait > period

\* DynamicDrain without the subtraction.
DynamicDrainNoProgress(c, period_after) == c

\* One pass of the dynamic drain: game_state_dynamic_tick, then the
\* subtraction of the period queried again after the tick.
DynamicDrain(c, period_after) == [ c EXCEPT !.dynamic_wait = @ - period_after ]

\* game_state_dynamic_tick: the periods the simulation may report after it.
GameDynamicTick(period) == Periods

DynamicTick ==
    /\ pc = "dynamic"
    /\ DynamicDue(ctx, ms_per_dyntick)
    /\ \E p2 \in GameDynamicTick(ms_per_dyntick) :
         /\ ms_per_dyntick' = p2
         /\ ctx' = DynamicDrain(ctx, p2)
         /\ obs' = [ obs EXCEPT
                       !.dynamic_ticks = @ + 1,
                       !.period_const = @ /\ p2 = ms_per_dyntick ]
    /\ UNCHANGED << heap, pc, run, start_timeout, screenVars, initVars, console_open,
                    cursor_shown >>

DynamicDone ==
    /\ pc = "dynamic"
    /\ ~DynamicDue(ctx, ms_per_dyntick)
    /\ pc' = "render"
    /\ UNCHANGED << heap, run, start_timeout, screenVars, initVars, ctx, console_open,
                    cursor_shown, gsVars, obs >>

\* What video_screenshot writes to the log: an error when the capture failed.
VideoScreenshotLog(capture_failed) == IF capture_failed THEN "error" ELSE "none"

\* How the servicing of a screenshot request ends: the capture failed, the
\* write of the file failed, or the file was written.
ScreenshotOutcome(capture_failed, write_failed) ==
    IF capture_failed THEN "capture_failed"
    ELSE IF write_failed THEN "write_failed" ELSE "written"

\* The log entry of the servicing: PERROR when the write fails and DEBUG when
\* it succeeds; engine_loop itself logs nothing when the capture failed.
ScreenshotLog(capture_failed, write_failed) ==
    IF capture_failed THEN VideoScreenshotLog(capture_failed)
    ELSE IF write_failed THEN "error" ELSE "debug"

\* ScreenshotFlag with take_screenshot = 0 moved into if(!failed_screenshot).
ScreenshotFlagKeptOnFailure(capture_failed, flag) == IF capture_failed THEN flag ELSE 0

\* take_screenshot after the servicing: take_screenshot = 0 stands after the
\* if(!failed_screenshot) block.
ScreenshotFlag(capture_failed, flag) == 0

\* ImageFrees with image_free moved into if(!failed_screenshot).
ImageFreesOnSuccess(capture_failed) == IF capture_failed THEN 0 ELSE 1

\* The image_free calls of the servicing: image_free(&img) stands after the
\* if(!failed_screenshot) block.
ImageFrees(capture_failed) == 1

\* Audio and video output, with the screenshot request serviced after the
\* frame was rendered; the iteration ends here.
Render ==
    /\ pc = "render"
    /\ IF enable_screen_updates # 0 /\ take_screenshot # 0
       THEN \E capture_failed, write_failed \in BOOLEAN :
              /\ take_screenshot' = ScreenshotFlag(capture_failed, take_screenshot)
              /\ obs' = [ obs EXCEPT
                            !.iter_done = TRUE,
                            !.shot = ScreenshotOutcome(capture_failed, write_failed),
                            !.shot_log = ScreenshotLog(capture_failed, write_failed),
                            !.image_frees = ImageFrees(capture_failed) ]
       ELSE /\ take_screenshot' = take_screenshot
            /\ obs' = [ obs EXCEPT !.iter_done = TRUE ]
    /\ pc' = "top"
    /\ UNCHANGED << heap, run, start_timeout, enable_screen_updates, initVars, ctx,
                    console_open, cursor_shown, gsVars >>

\* ----------------------------------------------------------- specification

NextIn(env) ==
    \/ EngineInit(env.sinks)
    \/ EngineClose
    \/ EngineRunEnter
    \/ Countdown
    \/ GameCreate
    \/ ExitHandler
    \/ LoopTop
    \/ PollEvent(env.events)
    \/ PollDone
    \/ FrameTime(env.mouse_deltas, env.deltas)
    \/ StaticTick
    \/ StaticDone
    \/ DynamicTick
    \/ DynamicDone
    \/ Render
    \/ EngineRunExit

Next == NextIn(EnvAll)

NextSched == NextIn(EnvSched)

NextMouse == NextIn(EnvMouse)

\* The program with every event kind.
Spec == Init /\ [][Next]_vars

\* The program with the debugger's keys and fine frame times.
SpecSched == Init /\ [][NextSched]_vars

\* The program with mouse motion and long frames.
SpecMouse == Init /\ [][NextMouse]_vars

\* The program runs on: engine_run and engine_loop are straight-line code
\* on one thread, so a block that can run does run, and SDL_PollEvent
\* returns 0 once the event queue is empty.
Fairness ==
    /\ WF_vars(Countdown)
    /\ WF_vars(GameCreate)
    /\ WF_vars(PollDone)
    /\ WF_vars(FrameTime(EnvSched.mouse_deltas, EnvSched.deltas))
    /\ WF_vars(StaticTick)
    /\ WF_vars(StaticDone)
    /\ WF_vars(DynamicTick)
    /\ WF_vars(DynamicDone)
    /\ WF_vars(Render)

\* The program of SpecSched, running on.
SpecLive == Init /\ [][NextSched]_vars /\ Fairness

\* ------------------------------------------------------------------ claims

RECURSIVE Reverse(_)
Reverse(q) == IF q = << >> THEN << >> ELSE Reverse(Tail(q)) \o << Head(q) >>

\* C1: when engine_init fails at subsystem i after the subsystems before i
\* succeeded, it calls close on exactly those subsystems, each once, in the
\* reverse of their init order, and on no other subsystem.
C1_ReverseTeardown ==
    init_ret = 1 =>
        \E i \in 1..Len(InitOrder) :
            /\ Len(init_calls) = i
            /\ \A j \in 1..i : init_calls[j].sub = InitOrder[j]
            /\ \A j \in 1..(i - 1) : init_calls[j].ok
            /\ ~init_calls[i].ok
            /\ close_calls = Reverse(SubSeq(InitOrder, 1, i - 1))

C1_Witness ==
    /\ pc = "init_failed"
    /\ init_failed = "fonts"
    /\ close_calls = << "lang", "sounds_loader", "audio", "video" >>

\* C2: after the first failed init no later init is called, engine_init
\* returns failure and run is not set; run is set to true, and success
\* returned, only when all seven init calls succeeded.
C2_FailFast ==
    init_ret # -1 =>
        /\ \A j \in 1..Len(init_calls) : ~init_calls[j].ok => j = Len(init_calls)
        /\ (\E j \in 1..Len(init_calls) : ~init_calls[j].ok)
              => (init_ret = 1 /\ (pc = "init_failed" => run = 0))
        /\ (\A j \in 1..Len(init_calls) : init_calls[j].ok)
              => (init_ret = 0 /\ Len(init_calls) = Len(InitOrder)
                  /\ (pc = "inited" => run = 1))
        /\ (pc \in { "init_failed", "inited" } /\ run = 1) => init_ret = 0

C2_Witness ==
    /\ pc = "init_failed"
    /\ init_calls = << [ sub |-> "video", ok |-> FALSE ] >>
    /\ init_ret = 1
    /\ run = 0

\* An iteration of engine_loop has just run to its end.
IterationEnded == pc = "top" /\ obs.iter_done

\* C3: at the end of every iteration static_wait is strictly below the
\* static tick period and dynamic_wait strictly below the dynamic tick
\* period game_state_ms_per_dyntick reports then.
C3_AccumulatorsBelowPeriod ==
    IterationEnded =>
        /\ ctx.static_wait < StaticPeriod
        /\ ctx.dynamic_wait < ms_per_dyntick

\* C4: static_wait and dynamic_wait are never negative, also when the
\* period changes with a dynamic tick.
C4_AccumulatorsNonNegative ==
    pc \in RunPcs =>
        /\ ctx.static_wait >= 0
        /\ ctx.dynamic_wait >= 0

\* C5: an iteration invokes floor(a / 10) static ticks and, when the dynamic
\* period p stays the same, floor(b / p) dynamic ticks, a and b being the
\* accumulators after the iteration's time was added.
C5_TickCounts ==
    IterationEnded =>
        /\ obs.static_ticks = obs.a \div StaticPeriod
        /\ obs.period_const => obs.dynamic_ticks = obs.b \div obs.p0

\* C6: with the visual debugger on, the accumulators advance only if a
\* single step was requested while the debugger was on.
C6_NoAdvanceWithoutRequest ==
    (obs.step_added > 0 \/ obs.step_added_dyn > 0) => obs.step_reqs > 0

\* C7 as claimed: with the visual debugger on, N single-step requests add
\* 20 * N ms to the accumulators, also when several requests are drained in
\* one iteration.
C7_QuantumPerRequest ==
    obs.step_reqs >= 1 =>
        /\ obs.step_added = DebugQuantum * obs.step_reqs
        /\ obs.step_added_dyn = DebugQuantum * obs.step_reqs

\* The blocks of an iteration after the accumulation.
AfterFrame == { "static", "dynamic", "render" }

\* C7, amended: with the visual debugger on, an iteration that drained one or
\* more single-step requests adds exactly 20 ms, however many requests it
\* drained, and consumes them all: debugger_proceed is reset and no request
\* made in debugger mode is left pending after the accumulation.
C7_QuantumPerIteration ==
    /\ obs.step_reqs >= 1 =>
          /\ obs.step_added = DebugQuantum
          /\ obs.step_added_dyn = DebugQuantum
          /\ ctx.debugger_proceed = 0
    /\ (pc \in AfterFrame /\ ctx.visual_debugger = 1) =>
          (obs.reqs = 0 /\ ctx.debugger_proceed = 0)

C7_Witness ==
    /\ pc = "static"
    /\ ctx.visual_debugger = 1
    /\ obs.step_reqs = 2
    /\ obs.step_added = DebugQuantum
    /\ ctx.debugger_proceed = 0

\* C8 as claimed: every event drained is routed to exactly one of console_event
\* and game_state_handle_event, chosen by whether the console was open when
\* the event arrived, the console-toggle keys included.
C8_RoutedToExactlyOne ==
    obs.ev # "none" =>
        /\ obs.to_console + obs.to_game = 1
        /\ obs.to_console = obs.ev_open

\* C8, amended: a key-down of TAB or backquote/grave, or of ESC while the
\* console is open, only opens or closes the overlay and is routed to
\* neither; every other event is routed to exactly one of the two, the
\* console if it was open when the event arrived and the simulation if not.
C8_RoutedUnlessConsoleKey ==
    obs.ev # "none" =>
        LET swallowed == \/ obs.ev \in { "KEY_TAB", "KEY_GRAVE" }
                         \/ obs.ev = "KEY_ESCAPE" /\ obs.ev_open = 1
        IN  IF swallowed
            THEN obs.to_console = 0 /\ obs.to_game = 0
            ELSE obs.to_console = obs.ev_open /\ obs.to_game = 1 - obs.ev_open

C8_Witness ==
    /\ pc = "poll"
    /\ obs.ev = "KEY_TAB"
    /\ obs.ev_open = 1
    /\ console_open = 0
    /\ obs.to_console = 0
    /\ obs.to_game = 0

\* C9: from mouse_visible_ticks = 1000 on, with no mouse motion, the cursor is
\* hidden exactly once, in the iteration in which the elapsed times read for
\* the countdown reach 1000 ms in sum, and in no later iteration.
C9_MouseHideOnce ==
    pc \in RunPcs \ { "countdown" } =>
        /\ obs.hide_count = IF obs.mouse_elapsed >= MouseTimeout THEN 1 ELSE 0
        /\ cursor_shown = IF obs.mouse_elapsed >= MouseTimeout THEN 0 ELSE 1
        /\ obs.hid = 1 => obs.hide_count = 1

C9_Witness ==
    /\ pc = "static"
    /\ obs.a >= 400
    /\ obs.hid = 0
    /\ obs.hide_count = 1
    /\ ctx.mouse_visible_ticks <= 0

\* C10: once run is false, no step of engine_run or engine_loop sets it
\* back to true.
C10_RunStaysFalse ==
    [][ (pc \in RunPcs /\ run = 0) => run' = 0 ]_vars

C10_Witness ==
    /\ pc = "stopped"
    /\ obs.iter_done
    /\ run = 0

C12_AllReleasedInReverse ==
    pc = "returned" => heap.frees = Reverse(heap.allocs)

\* Every close call of engine_close so far hit a subsystem that was up, and
\* the last initialised of those up.
ShutdownInOrder ==
    \A i \in 1..Len(shutdown) : shutdown[i].up /\ shutdown[i].last

\* C13 as claimed: in any sequence of engine_init and engine_close calls a
\* close call hits only a subsystem whose init succeeded and that was not
\* closed since, in strict reverse order of initialisation, also when
\* engine_close follows a failed engine_init.
C13_CloseOnlyWhatIsUp ==
    /\ init_ret = 1 => UpAfterInit = { }
    /\ ShutdownInOrder

\* C13, amended: engine_init, when it fails, closes what it initialised in
\* reverse order and leaves nothing up; engine_close calls the seven close
\* functions in reverse order of initialisation whatever engine_init
\* returned, so its calls hit only subsystems that are up, the last
\* initialised first, if and only if the engine_init before it succeeded.
C13_CloseAfterSuccessOnly ==
    /\ init_ret = 1 => UpAfterInit = { }
    /\ pc = "closed" =>
          /\ [ i \in 1..Len(shutdown) |-> shutdown[i].sub ] = Reverse(InitOrder)
          /\ ShutdownInOrder <=> init_ret = 0

C13_Witness ==
    /\ pc = "closed"
    /\ init_ret = 0
    /\ Len(shutdown) = Len(InitOrder)
    /\ shutdown[1].sub = "console"
    /\ ShutdownInOrder

InIteration == { "poll", "frame", "static", "dynamic", "render" }

C16_StopHasNoOtherEffect ==
    /\ [][ (pc = "top" /\ pc' = "stopped") =>
              UNCHANGED << ctx, run, screenVars, console_open, cursor_shown,
                           gsVars, heap, obs >> ]_vars
    /\ [][ (pc = "top" /\ pc' # "top") =>
              (pc' = "stopped" \/ (pc' = "poll" /\ run = 1)) ]_vars
    /\ [][ (pc' = "stopped" /\ pc # "stopped") => pc = "top" ]_vars
    /\ [][ (pc \in InIteration /\ run = 1 /\ run' = 0) => pc' = pc ]_vars

C16_Witness ==
    /\ pc = "stopped"
    /\ run = 1
    /\ obs.iter_done
    /\ ctx.static_wait = 10
    /\ obs.static_ticks = 1

\* C17: a key-down event calls at most one of console_window_open and
\* console_window_close: TAB and backquote/grave close the overlay when it
\* is open and open it when it is closed, ESC closes it when it is open and
\* does nothing to it when it is closed, and no other event touches it.
C17_ConsoleToggle ==
    obs.ev # "none" =>
        /\ obs.win_opens + obs.win_closes <= 1
        /\ obs.ev \in { "KEY_TAB", "KEY_GRAVE" } =>
              /\ obs.win_closes = obs.ev_open
              /\ obs.win_opens = 1 - obs.ev_open
              /\ console_open = 1 - obs.ev_open
        /\ obs.ev = "KEY_ESCAPE" =>
              /\ obs.win_closes = obs.ev_open
              /\ obs.win_opens = 0
              /\ console_open = 0
        /\ obs.ev \notin { "KEY_TAB", "KEY_GRAVE", "KEY_ESCAPE" } =>
              /\ obs.win_opens = 0
              /\ obs.win_closes = 0
              /\ console_open = obs.ev_open

C17_Witness ==
    /\ pc = "poll"
    /\ obs.ev = "KEY_GRAVE"
    /\ obs.ev_open = 1
    /\ obs.win_closes = 1
    /\ obs.win_opens = 0
    /\ console_open = 0

\* C18: the start-up countdown makes 30 passes, or none when crossfade is
\* off, one per decrement of start_timeout, and it ends; a quit event seen
\* in a pass makes engine_run return with no simulation created and no
\* iteration of the scheduler run; the simulation is created only after the
\* countdown has reached zero.
C18_GraceCountdown ==
    /\ [](pc = "countdown" =>
            /\ obs.cd_total \in { 0, StartTimeout }
            /\ start_timeout >= 0
            /\ obs.cd_passes = obs.cd_total - start_timeout)
    /\ [][ (heap.gs = "none" /\ heap'.gs # "none") =>
              /\ pc = "countdown"
              /\ start_timeout = 0
              /\ obs.cd_passes = obs.cd_total ]_vars
    /\ [][ (pc = "countdown" /\ pc' = "returned" /\ start_timeout' # start_timeout) =>
              (heap'.gs = "none" /\ ~obs'.iter_done) ]_vars
    /\ []((pc \in { "returned", "closed" } /\ heap.gs = "none") => ~obs.iter_done)
    /\ (pc = "countdown") ~> (pc \in { "top", "returned" })

C18_Witness ==
    /\ pc = "returned"
    /\ obs.cd_total = StartTimeout
    /\ obs.cd_passes = 12
    /\ start_timeout = 18
    /\ heap.gs = "none"
    /\ ~obs.iter_done

\* C19: engine_run neither reads nor writes the EngineContext after it has
\* freed it, and on its normal exit the game_state is freed before the
\* EngineContext.
C19_NoUseAfterFree ==
    /\ heap.uaf = 0
    /\ heap.ctx = "freed" => heap.frees = << "gs", "ctx" >>

\* C20 as claimed: image_free is called once, and only for an image that
\* video_screenshot captured; when the capture fails nothing is released.
C20_FreeOnlyCaptured ==
    obs.image_frees = IF obs.shot \in { "write_failed", "written" } THEN 1 ELSE 0

\* C20, amended: every servicing of a screenshot request calls image_free
\* exactly once, whether the capture failed, the write failed or the file
\* was written; an iteration that services no request calls it not at all.
C20_FreeOncePerServicing ==
    obs.image_frees = IF obs.shot # "none" THEN 1 ELSE 0

C20_Witness ==
    /\ pc = "top"
    /\ obs.shot = "capture_failed"
    /\ obs.image_frees = 1

====
